---------------------------- MODULE Spec2Model ----------------------------
(***************************************************************************)
(* imagelist-docker-events (src/main.go): a loop that subscribes to the    *)
(* docker event stream, and for every image push event starts a goroutine  *)
(* that resolves the image name to its repo digests (getRepoDigests,       *)
(* mapRepoDigestsToTags) and starts one goroutine per digest that PUTs the *)
(* record to the imagelist service with at most 30 attempts.               *)
(*                                                                         *)
(* Go strings are modelled as sequences of one-character strings, so that  *)
(* the regular expression, the prefix tests and the URL parser work on the *)
(* characters as the code does.                                            *)
(***************************************************************************)
EXTENDS Integers, Sequences, FiniteSets, TLC

VARIABLES
    mainPc,        \* position of main's app.Action: "start", "connect", "select", "sleep", "exited", "crashed"
    flagURL,       \* the --imagelist-url flag: Flag(string), or Unset
    imageListURL,  \* the PUT target computed at startup (joinURL's result)
    exitErr,       \* the cli.ExitError main returned, "" while none
    loopConns,     \* docker clients the main loop has created (none is ever closed)
    consumed,      \* items (messages and error signals) processEvents has consumed
    pushes,        \* image push messages among them
    lastItem,      \* the item the last processEvents call consumed
    loopLog,       \* what the main loop has logged (lines 64 and 70), as a set of kinds
    tasks,         \* one record per `go addToImageList(m.ID, url)`, in dispatch order
    pubs,          \* pubs[i][k]: the goroutine of task i for its k-th image
    mapCall        \* a direct call of mapRepoDigestsToTags, as main_test.go makes it

\* the variables of main and processEvents
mainVars == <<mainPc, flagURL, imageListURL, exitErr, loopConns, consumed, pushes,
              lastItem, loopLog>>

vars == <<mainVars, tasks, pubs, mapCall>>

---------------------------------------------------------------------------
(* Bounds of the model. *)

\* longest image name drawn from NameAlphabet
MaxNameLen == 4

\* most entries of RepoTags in an inspection result
MaxRepoTags == 2

\* most entries of RepoDigests in an inspection result
MaxRepoDigests == 2

---------------------------------------------------------------------------
(* Strings. *)

Lower == {"a","b","c","d","e","f","g","h","i","j","k","l","m",
          "n","o","p","q","r","s","t","u","v","w","x","y","z"}

Upper == {"A","B","C","D","E","F","G","H","I","J","K","L","M",
          "N","O","P","Q","R","S","T","U","V","W","X","Y","Z"}

Digits == {"0","1","2","3","4","5","6","7","8","9"}

\* \w of the regular expression
WordChars == Lower \cup Upper \cup Digits \cup {"_"}

\* [\w.-] of the regular expression
TagTailChars == WordChars \cup {".", "-"}

\* the {0,127} of the regular expression
TagTailMax == 127

\* strings.HasPrefix
HasPrefix(s, prefix) ==
    /\ Len(prefix) <= Len(s)
    /\ SubSeq(s, 1, Len(prefix)) = prefix

\* all strings over alphabet of length at most n
StringsUpTo(alphabet, n) == UNION {[1..k -> alphabet] : k \in 0..n}

---------------------------------------------------------------------------
(* tagRegexp = `:([\w][\w.-]{0,127})$` *)

\* the expression matches s from position i to the end of s
TagMatchAt(s, i) ==
    /\ i \in 1..Len(s)
    /\ s[i] = ":"
    /\ i + 1 <= Len(s)
    /\ s[i + 1] \in WordChars
    /\ Len(s) - (i + 1) <= TagTailMax
    /\ \A j \in (i + 2)..Len(s) : s[j] \in TagTailChars

\* where the leftmost match starts, 0 when there is none
TagMatchStart(s) ==
    LET starts == {i \in 1..Len(s) : TagMatchAt(s, i)}
    IN  IF starts = {} THEN 0
        ELSE CHOOSE i \in starts : \A j \in starts : i <= j

\* tagRegexp.MatchString(s)
MatchString(s) == TagMatchStart(s) # 0

\* tagRegexp.ReplaceAllString(s, ""): a match runs to the end of s, so there
\* is at most one and removing it leaves what precedes it
ReplaceAllString(s) ==
    IF MatchString(s) THEN SubSeq(s, 1, TagMatchStart(s) - 1) ELSE s

\* tagRegexp.FindStringSubmatch(s): <<whole match, group 1>>, or <<>> (nil)
FindStringSubmatch(s) ==
    IF MatchString(s)
    THEN <<SubSeq(s, TagMatchStart(s), Len(s)), SubSeq(s, TagMatchStart(s) + 1, Len(s))>>
    ELSE <<>>

---------------------------------------------------------------------------
(* mapRepoDigestsToTags *)

\* the tags loop: the tag of every entry of repoTags that starts with name
\* and has a tag, in order
TagsFor(name, repoTags) ==
    LET hits == SelectSeq(repoTags,
                    LAMBDA entry : /\ HasPrefix(entry, name)
                                   /\ Len(FindStringSubmatch(entry)) = 2)
    IN  [j \in 1..Len(hits) |-> FindStringSubmatch(hits[j])[2]]

\* the mutant: every repo digest becomes a key, whatever its repository
mapRepoDigestsToTagsAnyDigest(name, image) ==
    IF name = <<>> THEN <<>>
    ELSE LET bare == ReplaceAllString(name)
             tags == TagsFor(bare, image.RepoTags)
         IN  [d \in {image.RepoDigests[j] : j \in 1..Len(image.RepoDigests)} |-> tags]

\* a map is a function from its keys; the empty map is <<>>
mapRepoDigestsToTags(name, image) ==
    IF name = <<>> THEN <<>>
    ELSE LET bare == ReplaceAllString(name)
             tags == TagsFor(bare, image.RepoTags)
             keys == {image.RepoDigests[j] : j \in
                        {x \in 1..Len(image.RepoDigests) :
                            HasPrefix(image.RepoDigests[x], bare)}}
         IN  [d \in keys |-> tags]

---------------------------------------------------------------------------
(* Inputs: image names and inspection results. *)

\* the characters image names are drawn from: a word character, the tag
\* separator, a tag character that is no word character, a path separator
NameAlphabet == {"a", ":", ".", "/"}

\* the names of main_test.go's cases (quay.io/vaijab/did, vaijab/did:v1,
\* foo/bar:notpushedyet, shortened), and a name with a port
TestNames ==
    { <<"q",".","i","o","/","v","/","d","i","d">>,
      <<"v","/","d","i","d",":","v","1">>,
      <<"f","o","o","/","b","a","r",":","n","p">>,
      <<"h",":","5","/","a">> }

\* a name that ends in two tag suffixes
TwoTagNames == { <<"a",":","a",":","a">> }

\* the names mapRepoDigestsToTags is called with directly: the empty name
\* and the names with a repository (a name such as :a has the empty
\* repository, which every string starts with)
MapNames ==
    {n \in StringsUpTo(NameAlphabet, MaxNameLen) : n = <<>> \/ ReplaceAllString(n) # <<>>}
    \cup TestNames

\* the names of the events getRepoDigests is called with
ResolveNames == StringsUpTo(NameAlphabet, MaxNameLen) \cup TestNames \cup TwoTagNames

\* repo tags an inspection result may hold: two tags of repository a, one of
\* repository aa
RepoTagPool == { <<"a",":","a">>, <<"a",":","b">>, <<"a","a",":","c">> }

\* repo digests an inspection result may hold
RepoDigestPool == { <<"a","@","s">>, <<"a","a","@","s">>, <<"a",":","a","@","s">> }

\* the inspection result of main_test.go's fixture, with quay.io/vaijab/did
\* shortened to q.io/v/did, vaijab/did to v/did, notpushedyet to np, sha256
\* to s and the digests to their first eight hexadecimal digits
TestInspect ==
    [ RepoDigests |-> << <<"v","/","d","i","d","@","s",":","b","3","b","e","d","b","8","3">>,
                         <<"q",".","i","o","/","v","/","d","i","d","@","s",":","4","2","c","5","a","c","e","3">>,
                         <<"q",".","i","o","/","v","/","d","i","d","@","s",":","4","a","9","6","7","d","6","3">>,
                         <<"q",".","i","o","/","v","/","d","i","d","@","s",":","4","e","2","a","a","0","b","c">> >>,
      RepoTags    |-> << <<"f","o","o","/","b","a","r",":","n","p">>,
                         <<"v","/","d","i","d",":","v","1">>,
                         <<"q",".","i","o","/","v","/","d","i","d",":","v","1">>,
                         <<"q",".","i","o","/","v","/","d","i","d",":","v","1",".","1">>,
                         <<"q",".","i","o","/","v","/","d","i","d",":","l","a","t","e","s","t">>,
                         <<"v","/","d","i","d",":","l","a","t","e","s","t">> >> ]

SeqsUpTo(pool, n) == UNION {[1..k -> pool] : k \in 0..n}

\* what ImageInspectWithRaw may return: RepoTags and RepoDigests
ResolveInspections ==
    { [RepoTags |-> t, RepoDigests |-> d] :
        t \in SeqsUpTo(RepoTagPool, MaxRepoTags),
        d \in SeqsUpTo(RepoDigestPool, MaxRepoDigests) }
    \cup {TestInspect}

---------------------------------------------------------------------------
(* addToImageList, lines 101-107, and getRepoDigests *)

\* a goroutine `go addToImageList(name, url)` that has not run yet
NewTask(name) ==
    [ name    |-> name,
      pc      |-> "start",       \* "start", "inspecting", "returned"
      conn    |-> "none",        \* getRepoDigests' docker client: "none", "open", "closed"
      err     |-> "nil",         \* the error getRepoDigests returned
      logged  |-> FALSE,         \* addToImageList logged that error (line 104)
      inspect |-> <<>>,          \* <<the inspection result>> once ImageInspectWithRaw returned one
      images  |-> <<>> ]         \* the images getRepoDigests returned

\* the mutant: the client is not closed on an error return
ResolveFailedLeaving(t, err, conn) ==
    [t EXCEPT !.pc = "returned", !.err = err, !.logged = TRUE,
              !.conn = IF conn = "closed" THEN "open" ELSE conn]

\* getRepoDigests returns err: the deferred c.Close() runs when a client was
\* created, and addToImageList logs the error and returns
ResolveFailed(t, err, conn) ==
    [t EXCEPT !.pc = "returned", !.err = err, !.conn = conn, !.logged = TRUE]

\* the mutant: no check that the name has a tag
HasTagUnchecked(name) == TRUE

\* line 166
HasTag(name) == MatchString(name)

\* lines 181-183: one image per key of the map
ImageOf(name, dm, k) ==
    [ID |-> k, Name |-> ReplaceAllString(name), Tags |-> dm[k]]

\* the orders in which `range` may visit the keys of a map
Orders(keys) ==
    {o \in [1..Cardinality(keys) -> keys] : \A k \in keys : \E j \in DOMAIN o : o[j] = k}

\* a goroutine of lines 109-151 that has not run yet
NewPublisher ==
    [ pc      |-> "loop",   \* "loop", "wait", "put", "succeeded", "givenup"
      attempt |-> 0,        \* the local variable attempt
      puts    |-> 0,        \* HTTP PUTs sent
      waits   |-> 0,        \* 3 s waits done
      failed  |-> 0,        \* attempts that ended in status 500 or a send error
      final   |-> 0,        \* the status code of the first attempt that ended otherwise
      held    |-> 0,        \* responses whose deferred release (lines 133-136) has not
                            \* run, counted up to MaxHeld
      log     |-> {} ]      \* kinds of lines logged

\* the mutant: the loop over the map stops after the first key it visits
ImagesFirstOnly(name, dm, o) == <<ImageOf(name, dm, o[1])>>

\* lines 181-183: one image per key of the map, in the order o in which the
\* range visits the keys
Images(name, dm, o) == [k \in DOMAIN o |-> ImageOf(name, dm, o[k])]

\* the mutant: one goroutine, however many images there are
StartPublishersOnce(images) == <<NewPublisher>>

\* lines 108-152: one goroutine per image, which gets the image as argument
StartPublishers(images) == [k \in DOMAIN images |-> NewPublisher]

\* lines 160-171: create the client, check the name, call ImageInspectWithRaw
ResolveStart(i) ==
    /\ i \in DOMAIN tasks
    /\ tasks[i].pc = "start"
    /\ \E created \in BOOLEAN :
         tasks' = [tasks EXCEPT ![i] =
            IF ~created THEN ResolveFailed(@, "ConnectionError", "none")
            ELSE IF ~HasTag(@.name) THEN ResolveFailed(@, "NoTagError", "closed")
            ELSE [@ EXCEPT !.pc = "inspecting", !.conn = "open"]]
    /\ UNCHANGED <<mainVars, pubs, mapCall>>

\* lines 171-174: ImageInspectWithRaw fails
InspectFails(i) ==
    /\ i \in DOMAIN tasks
    /\ tasks[i].pc = "inspecting"
    /\ tasks' = [tasks EXCEPT ![i] = ResolveFailed(@, "RuntimeQueryError", "closed")]
    /\ UNCHANGED <<mainVars, pubs, mapCall>>

\* lines 171-185 and 102-152: ImageInspectWithRaw returns image; the map is
\* built, getRepoDigests returns, and addToImageList starts one goroutine per
\* image
Inspected(i, inspections) ==
    /\ i \in DOMAIN tasks
    /\ tasks[i].pc = "inspecting"
    /\ \E image \in inspections :
         LET dm == mapRepoDigestsToTags(tasks[i].name, image)
         IN  IF DOMAIN dm = {}
             THEN /\ tasks' = [tasks EXCEPT ![i] =
                        [ResolveFailed(@, "NoDigestsFoundError", "closed")
                            EXCEPT !.inspect = <<image>>]]
                  /\ pubs' = pubs
             ELSE \E o \in Orders(DOMAIN dm) :
                  /\ tasks' = [tasks EXCEPT ![i] =
                        [@ EXCEPT !.pc = "returned", !.conn = "closed",
                                  !.inspect = <<image>>,
                                  !.images = Images(tasks[i].name, dm, o)]]
                  /\ pubs' = [pubs EXCEPT ![i] =
                        StartPublishers(Images(tasks[i].name, dm, o))]
    /\ UNCHANGED <<mainVars, mapCall>>

---------------------------------------------------------------------------
(* A direct call of mapRepoDigestsToTags. *)

NoCall == [name |-> <<>>, image |-> <<>>, done |-> FALSE, result |-> <<>>]

\* mapRepoDigestsToTags(name, image) returns
MapReturns ==
    /\ mapCall.image # <<>>
    /\ ~mapCall.done
    /\ mapCall' = [mapCall EXCEPT !.done = TRUE,
                       !.result = mapRepoDigestsToTags(mapCall.name, mapCall.image[1])]
    /\ UNCHANGED <<mainVars, tasks, pubs>>

---------------------------------------------------------------------------
(* SpecResolve: getRepoDigests on every name and inspection result of the  *)
(* bounded sets, as called by one addToImageList goroutine.                *)

\* what processEvents takes from its channels: nothing yet, an event
\* message, or an error signal ("nil", "EOF", "other")
NoItem == [kind |-> "none", Type |-> "", Action |-> "", ID |-> <<>>, err |-> ""]

Message(type, action, id) ==
    [kind |-> "message", Type |-> type, Action |-> action, ID |-> id, err |-> ""]

ErrorSignal(err) == [NoItem EXCEPT !.kind = "error", !.err = err]

\* the --imagelist-url flag: not given, or given with a value
Unset == [set |-> FALSE, value |-> <<>>]

Flag(value) == [set |-> TRUE, value |-> value]

InitResolve ==
    /\ mainPc = "select"
    /\ flagURL = Unset
    /\ imageListURL = <<>>
    /\ exitErr = ""
    /\ loopConns = 1
    /\ consumed = 1
    /\ pushes = 1
    /\ loopLog = {}
    /\ \E name \in ResolveNames :
         /\ lastItem = Message("image", "push", name)
         /\ tasks = <<NewTask(name)>>
    /\ pubs = << <<>> >>
    /\ mapCall = NoCall

NextResolve ==
    \/ ResolveStart(1)
    \/ InspectFails(1)
    \/ Inspected(1, ResolveInspections)

SpecResolve == InitResolve /\ [][NextResolve]_vars

---------------------------------------------------------------------------
(* SpecMap: mapRepoDigestsToTags on every name and inspection result of the *)
(* bounded sets.                                                            *)

InitMap ==
    /\ mainPc = "select"
    /\ flagURL = Unset
    /\ imageListURL = <<>>
    /\ exitErr = ""
    /\ loopConns = 1
    /\ consumed = 0
    /\ pushes = 0
    /\ lastItem = NoItem
    /\ loopLog = {}
    /\ tasks = <<>>
    /\ pubs = <<>>
    /\ \E name \in MapNames, image \in ResolveInspections :
         mapCall = [NoCall EXCEPT !.name = name, !.image = <<image>>]

NextMap == MapReturns

SpecMap == InitMap /\ [][NextMap]_vars

---------------------------------------------------------------------------
(* What the properties of the resolver are stated with. *)

\* s is pre \o <<":">> \o token with a token of n characters: a word
\* character, then at most 127 word characters, dots or dashes
TagSplit(s, n) ==
    /\ n \in 1..(TagTailMax + 1)
    /\ n < Len(s)
    /\ s[Len(s) - n] = ":"
    /\ s[Len(s) - n + 1] \in WordChars
    /\ \A j \in (Len(s) - n + 2)..Len(s) : s[j] \in WordChars \cup {".", "-"}

EndsInTagSuffix(s) == \E n \in 1..Len(s) : TagSplit(s, n)

\* s without its tag suffix
StripTag(s) ==
    IF EndsInTagSuffix(s)
    THEN SubSeq(s, 1, Len(s) - (CHOOSE n \in 1..Len(s) : TagSplit(s, n)) - 1)
    ELSE s

\* the tag of s, which ends in a tag suffix
TagOf(s) ==
    SubSeq(s, Len(s) - (CHOOSE n \in 1..Len(s) : TagSplit(s, n)) + 1, Len(s))

StartsWith(s, p) == /\ Len(p) <= Len(s)
                    /\ \A j \in 1..Len(p) : s[j] = p[j]

\* the repository of a repo digest repository@algorithm:hash
RepoOfDigest(d) ==
    IF \E j \in 1..Len(d) : d[j] = "@"
    THEN SubSeq(d, 1, (CHOOSE j \in 1..Len(d) :
                          d[j] = "@" /\ \A x \in 1..(j - 1) : d[x] # "@") - 1)
    ELSE d

Range(q) == {q[j] : j \in DOMAIN q}

RECURSIVE TagsWhere(_, _)
\* the tags of the entries e of repoTags with keep[e], in order
TagsWhere(repoTags, keep) ==
    IF repoTags = <<>> THEN <<>>
    ELSE LET e == Head(repoTags)
         IN  (IF keep[e] /\ EndsInTagSuffix(e) THEN <<TagOf(e)>> ELSE <<>>)
             \o TagsWhere(Tail(repoTags), keep)

Returned(i) == i \in DOMAIN tasks /\ tasks[i].pc = "returned"

\* task i got an inspection result
WasInspected(i) == Returned(i) /\ tasks[i].inspect # <<>>

InspectOf(i) == tasks[i].inspect[1]

\* the repo digests of task i's inspection result that start with its bare name
PrefixDigests(i) ==
    {d \in Range(InspectOf(i).RepoDigests) : StartsWith(d, StripTag(tasks[i].name))}

---------------------------------------------------------------------------
(* C6 *)

\* C6 as stated: a name that does not match the tag-suffix pattern makes
\* resolution fail with NoTagError and produce no records.
C6_NoTagError ==
    \A i \in DOMAIN tasks :
        (Returned(i) /\ ~EndsInTagSuffix(tasks[i].name))
            => /\ tasks[i].err = "NoTagError"
               /\ tasks[i].images = <<>>

\* C6, amended: a name that does not match the tag-suffix pattern is never
\* inspected and yields no records and no publisher; resolution fails with
\* NoTagError when the docker client was created, and with the client's error
\* when it was not (the client is created before the name is checked).
C6_NoTagNoRecords ==
    \A i \in DOMAIN tasks :
        ~EndsInTagSuffix(tasks[i].name)
            => /\ tasks[i].pc # "inspecting"
               /\ tasks[i].inspect = <<>>
               /\ tasks[i].images = <<>>
               /\ pubs[i] = <<>>
               /\ Returned(i) =>
                    /\ tasks[i].logged
                    /\ tasks[i].conn = "closed" => tasks[i].err = "NoTagError"
                    /\ tasks[i].conn = "none" => tasks[i].err = "ConnectionError"
                    /\ tasks[i].conn \in {"closed", "none"}

\* a name without a tag was refused with NoTagError
C6_Witness ==
    \E i \in DOMAIN tasks :
        /\ Returned(i)
        /\ ~EndsInTagSuffix(tasks[i].name)
        /\ tasks[i].name # <<>>
        /\ tasks[i].err = "NoTagError"

---------------------------------------------------------------------------
(* C7 *)

\* C7: for a name with a tag whose inspection result holds no repo digest
\* that starts with the bare name, the map is empty and resolution fails
\* with NoDigestsFoundError and returns no records.
C7_NoDigestsFound ==
    \A i \in DOMAIN tasks :
        (WasInspected(i) /\ EndsInTagSuffix(tasks[i].name) /\ PrefixDigests(i) = {})
            => /\ tasks[i].err = "NoDigestsFoundError"
               /\ tasks[i].images = <<>>
               /\ pubs[i] = <<>>
               /\ mapRepoDigestsToTags(tasks[i].name, InspectOf(i)) = <<>>

\* a never-pushed image: repo tags of the name's repository, repo digests of
\* other repositories only
C7_Witness ==
    \E i \in DOMAIN tasks :
        /\ WasInspected(i)
        /\ EndsInTagSuffix(tasks[i].name)
        /\ PrefixDigests(i) = {}
        /\ InspectOf(i).RepoDigests # <<>>
        /\ \E e \in Range(InspectOf(i).RepoTags) : StartsWith(e, StripTag(tasks[i].name))
        /\ tasks[i].err = "NoDigestsFoundError"

---------------------------------------------------------------------------
(* C8 *)

\* the repo digests of image that start with the bare name
DigestsWithPrefix(name, image) ==
    {d \in Range(image.RepoDigests) : StartsWith(d, StripTag(name))}

\* the call returned for a name that is not empty
MapDone == mapCall.done /\ mapCall.name # <<>>

\* the keys are the repo digests that start with the bare name, and every
\* key has the tags of the repo tags that start with it, in order
C8_ByPrefix ==
    MapDone =>
        LET bare == StripTag(mapCall.name)
            image == mapCall.image[1]
        IN  /\ DOMAIN mapCall.result = DigestsWithPrefix(mapCall.name, image)
            /\ \A d \in DOMAIN mapCall.result :
                 mapCall.result[d] =
                    TagsWhere(image.RepoTags,
                              [e \in Range(image.RepoTags) |-> StartsWith(e, bare)])

\* repo digests and repo tags of other repositories contribute no key and
\* no tag
C8_OwnRepositoryOnly ==
    MapDone =>
        LET bare == StripTag(mapCall.name)
            image == mapCall.image[1]
        IN  \A d \in DOMAIN mapCall.result :
              /\ RepoOfDigest(d) = bare
              /\ mapCall.result[d] =
                    TagsWhere(image.RepoTags,
                              [e \in Range(image.RepoTags) |-> StripTag(e) = bare])

\* C8 as stated: the map's keys are the repo digests that start with the
\* bare name, every key maps to the tags of the repo tags that start with
\* it, in order, and other repositories contribute no key and no tag.
C8_DigestToTagMapping == C8_ByPrefix /\ C8_OwnRepositoryOnly

\* main_test.go's three cases
C8_TestCases ==
    (mapCall.done /\ mapCall.image = <<TestInspect>>) =>
        /\ mapCall.name = <<"q",".","i","o","/","v","/","d","i","d">> =>
             /\ TestInspect.RepoDigests[2] \in DOMAIN mapCall.result
             /\ mapCall.result[TestInspect.RepoDigests[2]] =
                    << <<"v","1">>, <<"v","1",".","1">>, <<"l","a","t","e","s","t">> >>
        /\ mapCall.name = <<"v","/","d","i","d",":","v","1">> =>
             /\ TestInspect.RepoDigests[1] \in DOMAIN mapCall.result
             /\ mapCall.result[TestInspect.RepoDigests[1]] =
                    << <<"v","1">>, <<"l","a","t","e","s","t">> >>
        /\ mapCall.name = <<"f","o","o","/","b","a","r",":","n","p">> =>
             mapCall.result = <<>>

---------------------------------------------------------------------------
(* C9 *)

\* C9 as stated: the repository field of every returned record does not end
\* in a tag suffix.
C9_RepositoryHasNoTag ==
    \A i \in DOMAIN tasks :
        \A k \in DOMAIN tasks[i].images :
            ~EndsInTagSuffix(tasks[i].images[k].Name)

---------------------------------------------------------------------------
(* The goroutine of lines 109-151: one image, at most 30 PUTs. *)

\* line 112
MaxAttempts == 30

\* what httpPut returns: an error (no response), or a response with a status
SendError == [err |-> TRUE, code |-> 0]

StatusCodes == {200, 404, 500, 503}

Response(code) == [err |-> FALSE, code |-> code]

\* an attempt ended in a send error or in status 500
Transients == {SendError, Response(500)}

Responses == {SendError} \cup {Response(c) : c \in StatusCodes}

\* the mutant: one attempt more before giving up
RetriesExhaustedLate(attempt) == attempt > MaxAttempts

\* line 112
RetriesExhausted(attempt) == attempt = MaxAttempts

\* the mutant: every status but 200 is retried
StatusOutcomeRetryAll(code) ==
    IF code = 200 THEN "succeeded" ELSE "loop"

\* the mutant: the loop goes on after a 200
StatusOutcomeNoReturn(code) ==
    IF code = 200 THEN "loop"
    ELSE IF code = 500 THEN "loop"
    ELSE "givenup"

\* the mutant: on a status other than 200 and 500 the goroutine blocks
\* instead of returning
StatusOutcomeHang(code) ==
    IF code = 200 THEN "succeeded"
    ELSE IF code = 500 THEN "loop"
    ELSE "blocked"

\* lines 138-149: where a response's status code takes the goroutine
StatusOutcome(code) ==
    IF code = 200 THEN "succeeded"
    ELSE IF code = 500 THEN "loop"
    ELSE "givenup"

\* lines 139, 144, 147: the line logged for a response's status code
StatusLog(code) ==
    IF code = 200 THEN "submitted"
    ELSE IF code = 500 THEN "status500"
    ELSE "badrequest"

\* line 122: json.Marshal of a struct of strings and a slice of strings does
\* not fail
MarshalOK(image) == TRUE

\* the mutant: attempt is one variable shared by the goroutines of a call
IncAttemptShared(ps, k) ==
    [j \in DOMAIN ps |-> [ps[j] EXCEPT !.attempt = @ + 1]]

\* line 120: attempt++ on the goroutine's own variable (declared at line 110)
IncAttempt(ps, k) == [ps EXCEPT ![k].attempt = @ + 1]

\* the held responses of a publisher are counted up to this number
MaxHeld == 2

\* lines 133-136: the function that drains and closes the body of the
\* response just received is deferred to the return of the goroutine
DeferRelease(p) == [p EXCEPT !.held = IF @ < MaxHeld THEN @ + 1 ELSE @]

\* a return of the goroutine, in state pc: the deferred functions run, and
\* every response held is drained and closed
Return(p, pc) == [p EXCEPT !.pc = pc, !.held = 0]

\* lines 120-128: attempt++, marshal, and the PUT is sent
Send(ps, k, image) ==
    LET qs == IncAttempt(ps, k)
    IN  IF ~MarshalOK(image)
        THEN [qs EXCEPT ![k] = Return([@ EXCEPT !.log = @ \cup {"marshal"}], "givenup")]
        ELSE [qs EXCEPT ![k].pc = "put", ![k].puts = @ + 1]

IsPublisher(i, k) == i \in DOMAIN pubs /\ k \in DOMAIN pubs[i]

\* the mutant: a wait before every attempt, the first as well
NeedsWaitAlways(attempt) == TRUE

\* line 117
NeedsWait(attempt) == attempt # 0

\* lines 111-119: the top of the loop
PubLoop(i, k) ==
    /\ IsPublisher(i, k)
    /\ pubs[i][k].pc = "loop"
    /\ pubs' = [pubs EXCEPT ![i] =
            IF RetriesExhausted(@[k].attempt)
            THEN [@ EXCEPT ![k] = Return([@ EXCEPT !.log = @ \cup {"maxretries"}], "givenup")]
            ELSE IF NeedsWait(@[k].attempt)
            THEN [@ EXCEPT ![k].pc = "wait"]
            ELSE Send(@, k, tasks[i].images[k])]
    /\ UNCHANGED <<mainVars, tasks, mapCall>>

\* lines 118-128: the 3 s have passed
PubWaited(i, k) ==
    /\ IsPublisher(i, k)
    /\ pubs[i][k].pc = "wait"
    /\ pubs' = [pubs EXCEPT ![i] =
            Send([@ EXCEPT ![k].waits = @ + 1], k, tasks[i].images[k])]
    /\ UNCHANGED <<mainVars, tasks, mapCall>>

\* lines 128-149: httpPut returns r
PubResponse(i, k, r) ==
    /\ IsPublisher(i, k)
    /\ pubs[i][k].pc = "put"
    /\ LET seen == [pubs[i][k] EXCEPT
                        !.failed = IF r \in Transients THEN @ + 1 ELSE @,
                        !.final  = IF r \notin Transients /\ @ = 0 THEN r.code ELSE @]
       IN  pubs' = [pubs EXCEPT ![i][k] =
                IF r.err
                THEN [seen EXCEPT !.pc = "loop", !.log = @ \cup {"senderror"}]
                ELSE LET got == [DeferRelease(seen) EXCEPT
                                        !.log = @ \cup {StatusLog(r.code)}]
                     IN  IF StatusOutcome(r.code) = "loop"
                         THEN [got EXCEPT !.pc = "loop"]
                         ELSE Return(got, StatusOutcome(r.code))]
    /\ UNCHANGED <<mainVars, tasks, mapCall>>

---------------------------------------------------------------------------
(* SpecPublish: one addToImageList call, from the resolution of its name   *)
(* to the end of its goroutines, against a service that may answer every   *)
(* PUT in every way.                                                       *)

\* the name of the spec's example, a/b:v1, and a name without a tag
PublishNames == { <<"a","/","b",":","v","1">>, <<"a","/","b">> }

\* the inspection result of the spec's example; one with a second digest of
\* a/b; one of an image that was never pushed
PublishInspections ==
    LET repoTags == << <<"f","o","o","/","b","a","r",":","n","p">>,
                       <<"a","/","b",":","v","1">>,
                       <<"a","/","b",":","l","a","t","e","s","t">> >>
        d1 == <<"a","/","b","@","s","1">>
        d2 == <<"c","/","d","@","s","2">>
        d3 == <<"a","/","b","@","s","3">>
    IN  { [RepoTags |-> repoTags, RepoDigests |-> <<d1, d2>>],
          [RepoTags |-> repoTags, RepoDigests |-> <<d1, d2, d3>>],
          [RepoTags |-> repoTags, RepoDigests |-> <<d2>>] }

InitPublish ==
    /\ mainPc = "select"
    /\ flagURL = Unset
    /\ imageListURL = <<>>
    /\ exitErr = ""
    /\ loopConns = 1
    /\ consumed = 1
    /\ pushes = 1
    /\ loopLog = {}
    /\ \E name \in PublishNames :
         /\ lastItem = Message("image", "push", name)
         /\ tasks = <<NewTask(name)>>
    /\ pubs = << <<>> >>
    /\ mapCall = NoCall

NextPublish ==
    \/ ResolveStart(1)
    \/ InspectFails(1)
    \/ Inspected(1, PublishInspections)
    \/ \E k \in DOMAIN pubs[1] : PubLoop(1, k)
    \/ \E k \in DOMAIN pubs[1] : PubWaited(1, k)
    \/ \E k \in DOMAIN pubs[1], r \in Responses : PubResponse(1, k, r)

SpecPublish == InitPublish /\ [][NextPublish]_vars

---------------------------------------------------------------------------
(* C1 - C4: the publisher goroutines. *)

\* the publisher goroutines that exist
Publishers == UNION {{<<i, k>> : k \in DOMAIN pubs[i]} : i \in DOMAIN pubs}

Pub(ik) == pubs[ik[1]][ik[2]]

\* C1: while every attempt of a publisher has ended in status 500 or a send
\* error, it has sent at most 30 PUTs and logged no success; once 30
\* attempts have failed so it sends no further PUT, and it gives up only
\* then, after exactly 30 PUTs, logging 'max retries reached'.
C1_RetryBound ==
    \A ik \in Publishers :
        Pub(ik).final = 0 =>
            /\ Pub(ik).puts <= MaxAttempts
            /\ "submitted" \notin Pub(ik).log
            /\ Pub(ik).pc # "succeeded"
            /\ Pub(ik).failed = MaxAttempts =>
                    /\ Pub(ik).pc \in {"loop", "givenup"}
                    /\ Pub(ik).puts = MaxAttempts
            /\ Pub(ik).pc = "givenup" =>
                    /\ Pub(ik).failed = MaxAttempts
                    /\ Pub(ik).puts = MaxAttempts
            /\ Pub(ik).pc = "givenup" <=> "maxretries" \in Pub(ik).log

\* a publisher gave up after 30 PUTs that ended in send errors and in 500s
C1_Witness ==
    \E ik \in Publishers :
        /\ Pub(ik).final = 0
        /\ Pub(ik).pc = "givenup"
        /\ Pub(ik).puts = MaxAttempts
        /\ {"senderror", "status500", "maxretries"} \subseteq Pub(ik).log

\* C2: once an attempt of a publisher got a status other than 200 and 500,
\* the publisher has given up, logged the bad request, and sent no PUT after
\* that attempt's; when it was the first attempt, exactly one PUT was sent.
C2_ShortCircuit ==
    \A ik \in Publishers :
        Pub(ik).final \notin {0, 200, 500} =>
            /\ Pub(ik).pc = "givenup"
            /\ Pub(ik).puts = Pub(ik).failed + 1
            /\ Pub(ik).failed = 0 => Pub(ik).puts = 1
            /\ "badrequest" \in Pub(ik).log
            /\ Pub(ik).log \cap {"submitted", "maxretries"} = {}

\* a publisher whose first attempt got a 404 and one that got a 503 after
\* failed attempts
C2_Witness ==
    /\ \E ik \in Publishers :
        /\ Pub(ik).final = 404
        /\ Pub(ik).failed = 0
        /\ Pub(ik).puts = 1
        /\ Pub(ik).pc = "givenup"
    /\ \E ik \in Publishers :
        /\ Pub(ik).final = 503
        /\ Pub(ik).failed = 2
        /\ Pub(ik).pc = "givenup"

\* C3: once the Nth attempt of a publisher was the first to get a 200
\* (N - 1 attempts failed before it), the publisher has succeeded and logged
\* the success, it has sent exactly N PUTs, N <= 30, and it does not log
\* 'max retries reached'; a publisher succeeds in no other way.
C3_Success ==
    \A ik \in Publishers :
        /\ Pub(ik).final = 200 =>
            /\ Pub(ik).pc = "succeeded"
            /\ Pub(ik).puts = Pub(ik).failed + 1
            /\ Pub(ik).puts <= MaxAttempts
            /\ "submitted" \in Pub(ik).log
            /\ "maxretries" \notin Pub(ik).log
        /\ (Pub(ik).pc = "succeeded" \/ "submitted" \in Pub(ik).log)
                => Pub(ik).final = 200

\* a publisher succeeded on its 30th attempt
C3_Witness ==
    \E ik \in Publishers :
        /\ Pub(ik).final = 200
        /\ Pub(ik).failed = MaxAttempts - 1
        /\ Pub(ik).puts = MaxAttempts
        /\ Pub(ik).pc = "succeeded"

\* the value of attempt after the responses p has got: one per response, and
\* one for the PUT that is not answered yet
OwnAttempts(p) ==
    p.failed + (IF p.final # 0 THEN 1 ELSE 0) + (IF p.pc = "put" THEN 1 ELSE 0)

\* the terminal state the responses p has got lead to, "" when none does
OwnOutcome(p) ==
    IF p.final = 200 THEN "succeeded"
    ELSE IF p.final # 0 THEN "givenup"
    ELSE IF p.failed = MaxAttempts /\ p.pc # "loop" THEN "givenup"
    ELSE ""

\* C4: under every interleaving of the publishers of one image, the attempt
\* counter and the terminal state of each are those its own responses
\* determine, whatever the others did.
C4_NonInterference ==
    \A ik \in Publishers :
        /\ Pub(ik).attempt = OwnAttempts(Pub(ik))
        /\ Pub(ik).puts = Pub(ik).attempt
        /\ (IF Pub(ik).pc \in {"succeeded", "givenup"} THEN Pub(ik).pc ELSE "")
                = OwnOutcome(Pub(ik))

\* two publishers of one image: one gave up after 30 failures, the other
\* succeeded at once; and one is retrying while the other gave up on a 404
C4_Witness ==
    \E i \in DOMAIN pubs :
        /\ Len(pubs[i]) = 2
        /\ tasks[i].images[1].Name = tasks[i].images[2].Name
        /\ tasks[i].images[1].ID # tasks[i].images[2].ID
        /\ pubs[i][1].pc = "givenup"
        /\ pubs[i][1].failed = MaxAttempts
        /\ pubs[i][2].pc = "succeeded"
        /\ pubs[i][2].attempt = 1

---------------------------------------------------------------------------
(* joinURL, lines 229-240: url.Parse, URL.ResolveReference, URL.String, for *)
(* URLs [scheme:][//host][path] without user info, port, query, fragment    *)
(* and escapes.                                                             *)

\* line 26
imageListPutImagesPath == <<"/","i","m","a","g","e","s">>

\* longest path appended to a prefix to make a base URL
MaxPathLen == 3

\* strings.Index: the first position of character c in s, 0 when there is none
IndexOf(s, c) ==
    IF \E j \in 1..Len(s) : s[j] = c
    THEN CHOOSE j \in 1..Len(s) : s[j] = c /\ \A x \in 1..(j - 1) : s[x] # c
    ELSE 0

\* strings.LastIndex
LastIndexOf(s, c) ==
    IF \E j \in 1..Len(s) : s[j] = c
    THEN CHOOSE j \in 1..Len(s) : s[j] = c /\ \A x \in (j + 1)..Len(s) : s[x] # c
    ELSE 0

UpperSeq == <<"A","B","C","D","E","F","G","H","I","J","K","L","M","N","O","P","Q","R","S","T","U","V","W","X","Y","Z">>

LowerSeq == <<"a","b","c","d","e","f","g","h","i","j","k","l","m","n","o","p","q","r","s","t","u","v","w","x","y","z">>

\* strings.ToLower
ToLower(s) ==
    [j \in 1..Len(s) |->
        IF s[j] \in Upper
        THEN LowerSeq[CHOOSE x \in 1..Len(UpperSeq) : UpperSeq[x] = s[j]]
        ELSE s[j]]

\* getscheme: a character that may stand at position i of a scheme
SchemeChar(c, i) ==
    \/ c \in Lower \cup Upper
    \/ i > 1 /\ c \in Digits \cup {"+", "-", "."}

\* getscheme: the first position that ends the scan, 0 when the scan reaches
\* the end of s
SchemeStop(s) ==
    IF \E j \in 1..Len(s) : ~SchemeChar(s[j], j)
    THEN CHOOSE j \in 1..Len(s) :
            ~SchemeChar(s[j], j) /\ \A x \in 1..(j - 1) : SchemeChar(s[x], x)
    ELSE 0

EmptyURL == [Scheme |-> <<>>, Opaque |-> <<>>, Host |-> <<>>, Path |-> <<>>]

ParseError == [ok |-> FALSE, url |-> EmptyURL]

Parsed(u) == [ok |-> TRUE, url |-> u]

\* url.Parse, after the scheme: rest is what follows it
ParseRest(scheme, rest) ==
    IF ~HasPrefix(rest, <<"/">>) /\ scheme # <<>>
    THEN Parsed([EmptyURL EXCEPT !.Scheme = scheme, !.Opaque = rest])
    ELSE IF /\ ~HasPrefix(rest, <<"/">>)
            /\ IndexOf(rest, ":") > 0
            /\ (IndexOf(rest, "/") = 0 \/ IndexOf(rest, ":") < IndexOf(rest, "/"))
    THEN ParseError      \* first path segment in URL cannot contain colon
    ELSE IF /\ HasPrefix(rest, <<"/", "/">>)
            /\ (scheme # <<>> \/ ~HasPrefix(rest, <<"/", "/", "/">>))
    THEN LET after == SubSeq(rest, 3, Len(rest))
             slash == IndexOf(after, "/")
         IN  Parsed([EmptyURL EXCEPT
                !.Scheme = scheme,
                !.Host = IF slash = 0 THEN after ELSE SubSeq(after, 1, slash - 1),
                !.Path = IF slash = 0 THEN <<>> ELSE SubSeq(after, slash, Len(after))])
    ELSE Parsed([EmptyURL EXCEPT !.Scheme = scheme, !.Path = rest])

\* url.Parse
Parse(s) ==
    LET stop == SchemeStop(s)
    IN  IF stop # 0 /\ s[stop] = ":"
        THEN IF stop = 1
             THEN ParseError      \* missing protocol scheme
             ELSE ParseRest(ToLower(SubSeq(s, 1, stop - 1)), SubSeq(s, stop + 1, Len(s)))
        ELSE ParseRest(<<>>, s)

RECURSIVE Split(_)
\* strings.Split(s, "/")
Split(s) ==
    IF IndexOf(s, "/") = 0 THEN <<s>>
    ELSE <<SubSeq(s, 1, IndexOf(s, "/") - 1)>>
            \o Split(SubSeq(s, IndexOf(s, "/") + 1, Len(s)))

RECURSIVE Join(_)
\* strings.Join(segments, "/")
Join(segments) ==
    IF segments = <<>> THEN <<>>
    ELSE IF Len(segments) = 1 THEN segments[1]
    ELSE segments[1] \o <<"/">> \o Join(Tail(segments))

RECURSIVE RemoveDots(_, _)
\* resolvePath's loop over the segments: "." is dropped, ".." drops the last
\* segment kept
RemoveDots(src, dst) ==
    IF src = <<>> THEN dst
    ELSE IF Head(src) = <<".">> THEN RemoveDots(Tail(src), dst)
    ELSE IF Head(src) = <<".", ".">>
    THEN RemoveDots(Tail(src), IF dst = <<>> THEN dst ELSE SubSeq(dst, 1, Len(dst) - 1))
    ELSE RemoveDots(Tail(src), Append(dst, Head(src)))

\* the mutant: the reference is appended to the base path
resolvePathAppend(base, ref) ==
    base \o ref

\* resolvePath(base, ref)
resolvePath(base, ref) ==
    LET full == IF ref = <<>> THEN base
                ELSE IF ref[1] # "/" THEN SubSeq(base, 1, LastIndexOf(base, "/")) \o ref
                ELSE ref
        src  == Split(full)
        kept == RemoveDots(src, <<>>)
        dst  == IF src[Len(src)] \in {<<".">>, <<".", ".">>} THEN Append(kept, <<>>) ELSE kept
        path == Join(dst)
    IN  IF full = <<>> THEN <<>>
        ELSE <<"/">> \o (IF HasPrefix(path, <<"/">>) THEN Tail(path) ELSE path)

\* URL.ResolveReference
ResolveReference(base, ref) ==
    IF ref.Scheme # <<>> \/ ref.Host # <<>>
    THEN [ref EXCEPT !.Path = resolvePath(ref.Path, <<>>)]
    ELSE IF ref.Opaque # <<>>
    THEN [ref EXCEPT !.Scheme = base.Scheme]
    ELSE [EmptyURL EXCEPT !.Scheme = base.Scheme,
                          !.Host = base.Host,
                          !.Path = resolvePath(base.Path, ref.Path)]

\* URL.String
URLString(u) ==
    (IF u.Scheme # <<>> THEN u.Scheme \o <<":">> ELSE <<>>)
    \o (IF u.Opaque # <<>> THEN u.Opaque
        ELSE (IF (u.Scheme # <<>> \/ u.Host # <<>>) /\ (u.Host # <<>> \/ u.Path # <<>>)
              THEN <<"/", "/">> \o u.Host ELSE <<>>)
             \o (IF u.Path # <<>> /\ u.Path[1] # "/" /\ u.Host # <<>> THEN <<"/">> ELSE <<>>)
             \o (IF /\ u.Scheme = <<>> /\ u.Host = <<>>
                    /\ IndexOf(u.Path, ":") > 0
                    /\ (IndexOf(u.Path, "/") = 0 \/ IndexOf(u.Path, ":") < IndexOf(u.Path, "/"))
                 THEN <<".", "/">> ELSE <<>>)
             \o u.Path)

\* joinURL(u, path): <<ok, string>>
joinURL(u, path) ==
    LET p    == Parse(path)
        base == Parse(u)
    IN  IF ~p.ok \/ ~base.ok THEN [ok |-> FALSE, s |-> <<>>]
        ELSE [ok |-> TRUE, s |-> URLString(ResolveReference(base.url, p.url))]

---------------------------------------------------------------------------
(* SpecURL: the start of main's action, lines 47-58, on every value of the  *)
(* flag in the bounded set.                                                 *)

\* how a base URL begins: scheme and host, nothing, a host alone, a scheme
\* alone, a colon
URLPrefixes ==
    { <<"h",":","/","/","x">>, <<>>, <<"/","/","x">>, <<"h",":">>, <<":">> }

\* scheme://host/path with a path of plain segments
PlainBaseURLs ==
    { <<"h",":","/","/","x">> \o p : p \in {q \in StringsUpTo({"/", "b"}, MaxPathLen) :
                              /\ HasPrefix(q, <<"/">>)
                              /\ q[Len(q)] # "/"
                              /\ \A j \in 1..(Len(q) - 1) : ~(q[j] = "/" /\ q[j + 1] = "/")} }
    \cup { <<"h","t","t","p",":","/","/","h","o","s","t","/","b","a","s","e">> }

\* the values of --imagelist-url
FlagURLs ==
    { pre \o p : pre \in URLPrefixes, p \in StringsUpTo({"/", "b", "."}, MaxPathLen) }
    \cup PlainBaseURLs

\* lines 47-58
Startup ==
    /\ mainPc = "start"
    /\ IF ~flagURL.set
       THEN /\ mainPc' = "exited"
            /\ exitErr' = "error: imagelist-url needs to be set"
            /\ imageListURL' = imageListURL
       ELSE LET joined == joinURL(flagURL.value, imageListPutImagesPath)
            IN  IF ~joined.ok
                THEN /\ mainPc' = "exited"
                     /\ exitErr' = "error: failed to parse imagelist url"
                     /\ imageListURL' = imageListURL
                ELSE /\ mainPc' = "connect"
                     /\ exitErr' = exitErr
                     /\ imageListURL' = joined.s
    /\ UNCHANGED <<flagURL, loopConns, consumed, pushes, lastItem, loopLog,
                   tasks, pubs, mapCall>>

InitURL ==
    /\ mainPc = "start"
    /\ flagURL \in {Flag(u) : u \in FlagURLs} \cup {Unset}
    /\ imageListURL = <<>>
    /\ exitErr = ""
    /\ loopConns = 0
    /\ consumed = 0
    /\ pushes = 0
    /\ lastItem = NoItem
    /\ loopLog = {}
    /\ tasks = <<>>
    /\ pubs = <<>>
    /\ mapCall = NoCall

NextURL == Startup

SpecURL == InitURL /\ [][NextURL]_vars

---------------------------------------------------------------------------
(* C5 *)

\* C5 as stated: for a base URL scheme://host/path the PUT target is the
\* base URL followed by /images.
C5_JoinKeepsBasePath ==
    (mainPc = "connect" /\ flagURL.value \in PlainBaseURLs)
        => imageListURL = flagURL.value \o imageListPutImagesPath

\* what the code computes: the reference /images replaces the base's path
C5_JoinReplacesPath ==
    (mainPc = "connect" /\ flagURL.value \in PlainBaseURLs)
        => LET base == Parse(flagURL.value).url
           IN  imageListURL = base.Scheme \o <<":", "/", "/">> \o base.Host
                                \o imageListPutImagesPath

---------------------------------------------------------------------------
(* main's loop, lines 61-74, and processEvents, lines 81-93. *)

\* items the loop consumes before the model stops it
MaxItems == 2

\* attempts of one publisher that the service fails in SpecLoop
MaxFaults == 1

\* the mutant: a task for every image event
IsImagePushAnyAction(m) == m.Type = "image"

\* line 88
IsImagePush(m) == m.Type = "image" /\ m.Action = "push"

\* lines 62-68: the client is created and c.Events subscribes; the deferred
\* c.Close() does not run, for the function does not return
MainConnect ==
    /\ mainPc = "connect"
    /\ mainPc' = "select"
    /\ loopConns' = loopConns + 1
    /\ UNCHANGED <<flagURL, imageListURL, exitErr, consumed, pushes, lastItem,
                   loopLog, tasks, pubs, mapCall>>

\* lines 62-68: NewEnvClient fails and returns a nil client; the error is
\* logged and c.Events is called on the nil client, which panics
MainConnectFails ==
    /\ mainPc = "connect"
    /\ mainPc' = "crashed"
    /\ loopLog' = loopLog \cup {"connfailed"}
    /\ UNCHANGED <<flagURL, imageListURL, exitErr, loopConns, consumed, pushes,
                   lastItem, tasks, pubs, mapCall>>

\* lines 87-92, 69, 61: a message is received; for an image push a goroutine
\* is started; processEvents returns nil and the loop starts over
ConsumeMessage(m) ==
    /\ mainPc = "select"
    /\ consumed < MaxItems
    /\ consumed' = consumed + 1
    /\ lastItem' = m
    /\ pushes' = IF m.Type = "image" /\ m.Action = "push" THEN pushes + 1 ELSE pushes
    /\ IF IsImagePush(m)
       THEN /\ tasks' = Append(tasks, NewTask(m.ID))
            /\ pubs' = Append(pubs, <<>>)
       ELSE UNCHANGED <<tasks, pubs>>
    /\ mainPc' = "connect"
    /\ UNCHANGED <<flagURL, imageListURL, exitErr, loopConns, loopLog, mapCall>>

\* the mutant: the end of the stream is a read error as well
IsReadErrorNotNil(err) == err # "nil"

\* line 84
IsReadError(err) == err # "nil" /\ err # "EOF"

\* lines 83-86, 69-73: an error signal is received; unless it is nil or
\* io.EOF, processEvents returns an error, which main logs before it waits
ConsumeError(err) ==
    /\ mainPc = "select"
    /\ consumed < MaxItems
    /\ consumed' = consumed + 1
    /\ lastItem' = ErrorSignal(err)
    /\ IF IsReadError(err)
       THEN /\ loopLog' = loopLog \cup {"readfailed"}
            /\ mainPc' = "sleep"
       ELSE /\ loopLog' = loopLog
            /\ mainPc' = "connect"
    /\ UNCHANGED <<flagURL, imageListURL, exitErr, loopConns, pushes, tasks,
                   pubs, mapCall>>

\* lines 71-72: the second has passed
MainWaited ==
    /\ mainPc = "sleep"
    /\ mainPc' = "connect"
    /\ UNCHANGED <<flagURL, imageListURL, exitErr, loopConns, consumed, pushes,
                   lastItem, loopLog, tasks, pubs, mapCall>>

---------------------------------------------------------------------------
(* SpecLoop: the program from its start: the loop, and the goroutines of    *)
(* the push events it consumed, against a service that fails at most        *)
(* MaxFaults attempts of a publisher.                                       *)

\* the message types, actions and names of the events
EventTypes == {"image", "container"}

EventActions == {"push", "pull"}

EventNames == { <<"a","/","b",":","v","1">>, <<"a","/","b">> }

Messages == {Message(t, a, n) : t \in EventTypes, a \in EventActions, n \in EventNames}

ErrorSignals == {"nil", "EOF", "other"}

\* inspection results with one digest of a/b, and with none
LoopInspections ==
    { [RepoTags |-> << <<"a","/","b",":","v","1">> >>,
       RepoDigests |-> << <<"a","/","b","@","s","1">> >>],
      [RepoTags |-> << <<"a","/","b",":","v","1">> >>,
       RepoDigests |-> << <<"c","/","d","@","s","2">> >>] }

InitLoop ==
    /\ mainPc = "start"
    /\ flagURL = Flag(<<"h",":","/","/","x">>)
    /\ imageListURL = <<>>
    /\ exitErr = ""
    /\ loopConns = 0
    /\ consumed = 0
    /\ pushes = 0
    /\ lastItem = NoItem
    /\ loopLog = {}
    /\ tasks = <<>>
    /\ pubs = <<>>
    /\ mapCall = NoCall

\* a step of main
MainStep ==
    \/ Startup
    \/ MainConnect
    \/ MainConnectFails
    \/ \E m \in Messages : ConsumeMessage(m)
    \/ \E err \in ErrorSignals : ConsumeError(err)
    \/ MainWaited

\* a step of one of the goroutines
TaskStep ==
    \/ \E i \in DOMAIN tasks : ResolveStart(i)
    \/ \E i \in DOMAIN tasks : InspectFails(i)
    \/ \E i \in DOMAIN tasks : Inspected(i, LoopInspections)
    \/ \E i \in DOMAIN pubs : \E k \in DOMAIN pubs[i] : PubLoop(i, k)
    \/ \E i \in DOMAIN pubs : \E k \in DOMAIN pubs[i] : PubWaited(i, k)
    \/ \E i \in DOMAIN pubs : \E k \in DOMAIN pubs[i] :
         \E r \in {x \in Responses : x \in Transients => pubs[i][k].attempt <= MaxFaults} :
            PubResponse(i, k, r)

NextLoop == MainStep \/ TaskStep

SpecLoop == InitLoop /\ [][NextLoop]_vars

---------------------------------------------------------------------------
(* C10 *)

\* task i or one of its publishers has steps left
Running(i) ==
    \/ tasks[i].pc # "returned"
    \/ \E k \in DOMAIN pubs[i] : pubs[i][k].pc \notin {"succeeded", "givenup"}

\* C10: the loop has started exactly one task per consumed message of type
\* "image" and action "push" and none for any other item, the task of the
\* last such message has its ID as name, and tasks do not block the loop:
\* whatever the tasks' states, main can take its next step, and at its
\* select it can consume a message and an error.
C10_Dispatch ==
    /\ Len(tasks) = pushes
    /\ Len(pubs) = Len(tasks)
    /\ (lastItem.kind = "message" /\ lastItem.Type = "image" /\ lastItem.Action = "push")
            => /\ tasks # <<>>
               /\ tasks[Len(tasks)].name = lastItem.ID
    /\ (mainPc \notin {"crashed", "exited"} /\ consumed < MaxItems)
            => ENABLED MainStep
    /\ (mainPc = "select" /\ consumed < MaxItems)
            => /\ \A m \in Messages : ENABLED ConsumeMessage(m)
               /\ \A err \in ErrorSignals : ENABLED ConsumeError(err)

\* the loop has consumed a second push message while the task of the first
\* has not started resolving, and while a publisher of the first awaits the
\* answer to its PUT; and it has consumed items that started no task
C10_Witness ==
    /\ consumed = 2
    /\ Len(tasks) = 2
    /\ Running(1)
    /\ \E k \in DOMAIN pubs[1] : pubs[1][k].pc = "put"
    /\ tasks[2].pc = "start"

\* an image event that is no push and an event of another type were
\* consumed and no task was started
C10_WitnessNoTask ==
    /\ consumed = 2
    /\ pushes = 0
    /\ tasks = <<>>
    /\ lastItem.kind = "message"
    /\ lastItem.Type = "image"

---------------------------------------------------------------------------
(* C11 *)

\* this step consumes an error signal from the subscription
TakesError == consumed' = consumed + 1 /\ lastItem'.kind = "error"

\* C11: a step that consumes an error signal other than nil and the end of
\* the stream logs it and starts the 1 s wait, without a new connection; the
\* loop waits only after such a signal, which it has logged; the wait ends
\* in Connecting, and only the step from Connecting makes the connection the
\* loop subscribes on, a new one. A step that consumes nil or the end of the
\* stream logs nothing and starts no wait.
C11_StreamError ==
    [][ /\ (TakesError /\ lastItem'.err \notin {"nil", "EOF"})
            => /\ mainPc' = "sleep"
               /\ "readfailed" \in loopLog'
               /\ loopConns' = loopConns
        /\ (TakesError /\ lastItem'.err \in {"nil", "EOF"})
            => /\ mainPc' # "sleep"
               /\ loopLog' = loopLog
        /\ mainPc' = "sleep"
            => /\ lastItem'.kind = "error"
               /\ lastItem'.err \notin {"nil", "EOF"}
               /\ "readfailed" \in loopLog'
        /\ mainPc = "sleep"
            => /\ mainPc' \in {"sleep", "connect"}
               /\ loopConns' = loopConns
               /\ loopLog' = loopLog
               /\ consumed' = consumed
        /\ (mainPc # "select" /\ mainPc' = "select")
            => /\ mainPc = "connect"
               /\ loopConns' = loopConns + 1
      ]_vars

\* after a read error the loop has logged, waited, and subscribed again on
\* its second connection
C11_Witness ==
    /\ lastItem = ErrorSignal("other")
    /\ mainPc = "select"
    /\ loopConns = 2
    /\ "readfailed" \in loopLog

\* the end of the stream was consumed: nothing logged, no wait
C11_WitnessEOF ==
    /\ lastItem = ErrorSignal("EOF")
    /\ consumed = 1
    /\ mainPc = "connect"
    /\ loopLog = {}

---------------------------------------------------------------------------
(* C12 *)

\* C12: once the startup configuration is accepted the process neither
\* exits nor crashes, whatever failed (a connection attempt, the stream, a
\* task), and the loop goes on: main has a next step to take.
C12_LoopNeverStops ==
    (mainPc # "start" /\ exitErr = "")
        => /\ mainPc \notin {"exited", "crashed"}
           /\ consumed < MaxItems => ENABLED MainStep

---------------------------------------------------------------------------
(* C16 *)

\* line 66: c.Close() is deferred to the return of app.Action, and the loop
\* of line 61 never returns, so every client the loop has created is open
OpenLoopConns == loopConns

\* C16: at most one docker client created by the loop is open.
C16_OneLoopConnection == OpenLoopConns <= 1

---------------------------------------------------------------------------
(* C20 *)

\* the last item consumed was an error signal other than nil and io.EOF
AfterReadError == lastItem.kind = "error" /\ lastItem.err \notin {"nil", "EOF"}

\* C20: having consumed an item, the loop is back in Connecting (or on its
\* way there, waiting) only when that item was an error signal other than
\* nil and the end of the stream; after a message it is at its select, on
\* the connection and subscription the message came from.
C20_ReconnectOnlyAfterError ==
    /\ (consumed > 0 /\ mainPc \in {"connect", "sleep"}) => AfterReadError
    /\ lastItem.kind = "message" => (mainPc = "select" /\ loopConns = 1)

---------------------------------------------------------------------------
(* SpecTwice: two addToImageList calls for the same name, as after two push *)
(* events of one image; each resolves the name on its own.                  *)

\* names with and without a tag
TwiceNames == PublishNames \cup TestNames \cup TwoTagNames \cup { <<"a",":","a">> }

\* inspection results whose maps have no, one and two keys
TwiceInspections ==
    PublishInspections \cup {TestInspect}
    \cup { [RepoTags    |-> << <<"a",":","a">>, <<"a",":","b">> >>,
            RepoDigests |-> << <<"a","@","s">>, <<"a","a","@","s">> >>] }

InitTwice ==
    /\ mainPc = "select"
    /\ flagURL = Flag(<<"h",":","/","/","x">>)
    /\ imageListURL = joinURL(flagURL.value, imageListPutImagesPath).s
    /\ exitErr = ""
    /\ loopConns = 3
    /\ consumed = 2
    /\ pushes = 2
    /\ loopLog = {}
    /\ \E name \in TwiceNames :
         /\ lastItem = Message("image", "push", name)
         /\ tasks = <<NewTask(name), NewTask(name)>>
    /\ pubs = << <<>>, <<>> >>
    /\ mapCall = NoCall

NextTwice ==
    \/ \E i \in 1..2 : ResolveStart(i)
    \/ \E i \in 1..2 : InspectFails(i)
    \/ \E i \in 1..2 : Inspected(i, TwiceInspections)

SpecTwice == InitTwice /\ [][NextTwice]_vars

---------------------------------------------------------------------------
(* C13 *)

\* calls i and j resolved the same name and got the same answers from the
\* docker daemon: a client or none, and the same inspection result or none
SameResolution(i, j) ==
    /\ Returned(i)
    /\ Returned(j)
    /\ tasks[i].name = tasks[j].name
    /\ tasks[i].conn = tasks[j].conn
    /\ tasks[i].inspect = tasks[j].inspect

\* C13: two resolutions of one name against the same metadata end alike:
\* both fail with the same error, or both return the same set of records
\* (digest, repository, tags), the same number of them, whatever the order
\* in which each call visited its map.
C13_Idempotent ==
    \A i, j \in DOMAIN tasks :
        SameResolution(i, j)
            => /\ tasks[i].err = tasks[j].err
               /\ Range(tasks[i].images) = Range(tasks[j].images)
               /\ Len(tasks[i].images) = Len(tasks[j].images)
               /\ Len(pubs[i]) = Len(pubs[j])

\* two calls returned the same two records in different orders
C13_Witness ==
    /\ Len(tasks) = 2
    /\ SameResolution(1, 2)
    /\ tasks[1].err = "nil"
    /\ Len(tasks[1].images) = 2
    /\ tasks[1].images # tasks[2].images

\* two calls failed alike on an image that was never pushed
C13_WitnessFailed ==
    /\ Len(tasks) = 2
    /\ SameResolution(1, 2)
    /\ tasks[1].err = "NoDigestsFoundError"

---------------------------------------------------------------------------
(* C14 *)

\* C14: a publisher that waits for its next attempt or has sent its next PUT
\* holds no response of an earlier attempt that is not drained and closed;
\* it never holds more than one; and it holds none once it has ended.
C14_ReleasedBeforeNext ==
    \A ik \in Publishers :
        /\ Pub(ik).pc \in {"wait", "put"} => Pub(ik).held = 0
        /\ Pub(ik).held <= 1
        /\ Pub(ik).pc \in {"succeeded", "givenup"} => Pub(ik).held = 0

\* what does hold: every response is released by the time the publisher
\* ends, and none is held before the first response
C14_ReleasedAtReturn ==
    \A ik \in Publishers :
        /\ Pub(ik).pc \in {"succeeded", "givenup"} => Pub(ik).held = 0
        /\ "status500" \notin Pub(ik).log => Pub(ik).held = 0

\* a publisher has sent its third PUT while it holds the responses of the
\* first two
C14_HoldsTwo ==
    \E ik \in Publishers :
        /\ Pub(ik).pc = "put"
        /\ Pub(ik).puts = 3
        /\ Pub(ik).held = 2

---------------------------------------------------------------------------
(* C15 *)

\* C15: a publisher has waited before none of its PUTs when it has sent
\* none or one, and once before each PUT after the first: with k PUTs sent
\* it has waited k - 1 times, in every state, the final ones included; it
\* waits only between two attempts, after a failed one and never after the
\* last of the 30.
C15_Backoff ==
    \A ik \in Publishers :
        /\ Pub(ik).puts = 0 => Pub(ik).waits = 0
        /\ Pub(ik).puts >= 1 => Pub(ik).waits = Pub(ik).puts - 1
        /\ Pub(ik).pc = "wait"
            => /\ Pub(ik).puts \in 1..(MaxAttempts - 1)
               /\ Pub(ik).failed = Pub(ik).puts
               /\ Pub(ik).final = 0

\* a publisher gave up after 30 PUTs and 29 waits, and one succeeded with
\* its third PUT after two waits
C15_Witness ==
    /\ \E ik \in Publishers :
        /\ Pub(ik).pc = "givenup"
        /\ "maxretries" \in Pub(ik).log
        /\ Pub(ik).puts = MaxAttempts
        /\ Pub(ik).waits = MaxAttempts - 1
    /\ \E ik \in Publishers :
        /\ Pub(ik).pc = "succeeded"
        /\ Pub(ik).puts = 3
        /\ Pub(ik).waits = 2

---------------------------------------------------------------------------
(* SpecTerminate: one addToImageList call that starts at most one          *)
(* publisher, with the progress the Go runtime and the service give it: a   *)
(* goroutine that can run does run, a 3 s wait elapses, and every PUT       *)
(* returns, with a response or with an error.                               *)

\* the inspection results of SpecPublish whose maps have at most one key
TerminateInspections ==
    {image \in PublishInspections :
        \A name \in PublishNames :
            Cardinality(DOMAIN mapRepoDigestsToTags(name, image)) <= 1}

NextTerminate ==
    \/ ResolveStart(1)
    \/ InspectFails(1)
    \/ Inspected(1, TerminateInspections)
    \/ PubLoop(1, 1)
    \/ PubWaited(1, 1)
    \/ \E r \in Responses : PubResponse(1, 1, r)

FairPublisher ==
    /\ WF_vars(PubLoop(1, 1))
    /\ WF_vars(PubWaited(1, 1))
    /\ WF_vars(\E r \in Responses : PubResponse(1, 1, r))

SpecTerminate == InitPublish /\ [][NextTerminate]_vars /\ FairPublisher

---------------------------------------------------------------------------
(* C17 *)

\* the publisher of the call was started
Started == 1 \in DOMAIN pubs[1]

\* it has returned
Ended == Started /\ pubs[1][1].pc \in {"succeeded", "givenup"}

\* C17: a publisher that was started ends, succeeded or given up, whatever
\* the responses to its PUTs; and once it has ended it takes no further
\* step: its state, its PUT count and its log stay as they are.
C17_Terminates ==
    /\ Started ~> Ended
    /\ [][Ended => pubs'[1][1] = pubs[1][1]]_vars

\* the publisher has ended after 30 attempts that failed in both ways
C17_Witness ==
    /\ Ended
    /\ pubs[1][1].failed = MaxAttempts
    /\ pubs[1][1].waits = MaxAttempts - 1
    /\ {"senderror", "status500"} \subseteq pubs[1][1].log

---------------------------------------------------------------------------
(* C18 *)

\* the digests of the records call i returned
RecordIDs(i) == {tasks[i].images[k].ID : k \in DOMAIN tasks[i].images}

\* C18: no publisher is started before the resolution has returned; a
\* resolution that returned k records (k >= 1, one per matching repo digest,
\* no digest twice) has started exactly k publishers, the k-th for the k-th
\* record, and logged no error; a resolution that failed has logged its
\* error, returned no record and started no publisher, so no PUT is sent,
\* and the call takes no further step: the resolution is not tried again.
C18_FanOut ==
    \A i \in DOMAIN tasks :
        /\ ~Returned(i) => pubs[i] = <<>>
        /\ (Returned(i) /\ tasks[i].err = "nil")
            => /\ tasks[i].images # <<>>
               /\ DOMAIN pubs[i] = DOMAIN tasks[i].images
               /\ Cardinality(RecordIDs(i)) = Len(tasks[i].images)
               /\ RecordIDs(i) = PrefixDigests(i)
               /\ ~tasks[i].logged
        /\ (Returned(i) /\ tasks[i].err # "nil")
            => /\ tasks[i].logged
               /\ tasks[i].images = <<>>
               /\ pubs[i] = <<>>
               /\ ~ENABLED ResolveStart(i)
               /\ ~ENABLED InspectFails(i)
               /\ ~ENABLED Inspected(i, PublishInspections)

\* a resolution returned two records and both publishers have sent PUTs
C18_Witness ==
    \E i \in DOMAIN tasks :
        /\ Returned(i)
        /\ tasks[i].err = "nil"
        /\ Len(tasks[i].images) = 2
        /\ Len(pubs[i]) = 2
        /\ pubs[i][1].puts = 2
        /\ pubs[i][2].puts = 1

\* a resolution failed on an image without a matching repo digest
C18_WitnessFailed ==
    \E i \in DOMAIN tasks :
        /\ Returned(i)
        /\ tasks[i].err = "NoDigestsFoundError"
        /\ tasks[i].logged
        /\ pubs[i] = <<>>

---------------------------------------------------------------------------
(* C19 *)

\* C19: a resolver call that has returned has left no client open: it has
\* closed the one client it created, on each return path after the
\* creation (no tag, failed query, no digests, success), and it created
\* none exactly when the creation failed; while the call runs it has at
\* most its own one client, open from the creation on; a call that has not
\* started has none, whatever the earlier calls did.
C19_ResolverConnection ==
    \A i \in DOMAIN tasks :
        /\ tasks[i].pc = "start" => tasks[i].conn = "none"
        /\ tasks[i].pc = "inspecting" => tasks[i].conn = "open"
        /\ Returned(i)
            => /\ tasks[i].conn \in {"none", "closed"}
               /\ tasks[i].conn = "none" <=> tasks[i].err = "ConnectionError"
               /\ tasks[i].err \in {"NoTagError", "RuntimeQueryError",
                                     "NoDigestsFoundError", "nil"}
                    => tasks[i].conn = "closed"

\* the call of the first push event has returned after a failed query, with
\* its client closed, and the call of the second has its own client open
C19_Witness ==
    /\ Len(tasks) = 2
    /\ Returned(1)
    /\ tasks[1].err = "RuntimeQueryError"
    /\ tasks[1].conn = "closed"
    /\ tasks[2].pc = "inspecting"
    /\ tasks[2].conn = "open"

=============================================================================
